---- MODULE Spec2Model ----
(***************************************************************************)
(* A model of src/src/screen.rs: the geometry types (Cell, Size, Rect,     *)
(* CellIterator), the ScreenBuffer diff cache, the Terminal emitter and    *)
(* the Screen facade with its Drop teardown.                               *)
(*                                                                         *)
(* Every Terminal method is `write!(...).unwrap()`: a write either         *)
(* succeeds (the sequence is emitted) or fails (nothing is emitted and the *)
(* unwrap panics).  Which of the two happens is the environment's choice.  *)
(***************************************************************************)
EXTENDS Integers, Sequences, FiniteSets, TLC

\* ---------------------------------------------------------------- bounds
MaxRows == 2      \* largest row count the size provider reports
MaxCols == 2      \* largest column count the size provider reports
MaxOps  == 5      \* facade calls made between setup and teardown

\* ---------------------------------------------------------------- values
None == <<>>                      \* Option::None
Some(x) == <<x>>                  \* Option::Some of a number

Chars  == {"a", "W"}              \* "a": one column, "W": a two-column glyph
Colors == {"Black", "Red"}

\* the (character, fg, bg) arguments the callers of put use
Glyphs == { <<"a", "Red", "Black">>, <<"a", "Black", "Black">>, <<"W", "Black", "Red">> }

\* unicode_width::UnicodeWidthChar::width: Some(columns), or None for a
\* control character
CharWidth(ch) ==
    CASE ch = "a"   -> Some(1)
      [] ch = "W"   -> Some(2)
      [] ch = "z"   -> Some(0)
      [] OTHER      -> None

unwrap_or(opt, default) == IF opt = None THEN default ELSE opt[1]

\* Color::to_term_color: the term crate's color numbers
to_term_color(c) ==
    CASE c = "Black" -> 0
      [] c = "Red"   -> 1
      [] OTHER       -> 7

\* ---------------------------------------------------------------- geometry
\* A Cell is <<row, col>>, a Size is <<rows, cols>>.

within_loose(cell, sz) ==
    IF cell[1] <= sz[1] /\ cell[2] <= sz[2] THEN cell ELSE None

\* Cell::within
within(cell, sz) ==
    IF cell[1] < sz[1] /\ cell[2] < sz[2] THEN cell ELSE None

\* u16 / i16 arithmetic.  An overflowing operation panics when the build has
\* overflow checks (debug) and wraps when it has not (release).
Panic == <<"panic">>

as_i16(x) == IF x >= 32768 THEN x - 65536 ELSE x      \* `x as i16` of a u16

wrap_i16(d) == ((d + 32768) % 65536) - 32768

fits_u16(x) == 0 <= x /\ x <= 65535
fits_i16(d) == -32768 <= d /\ d <= 32767

max(a, b) == IF a >= b THEN a ELSE b

\* Add for Cell::add
Cell_add(a, b, checks) ==
    IF fits_u16(a[1] + b[1]) /\ fits_u16(a[2] + b[2])
    THEN << a[1] + b[1], a[2] + b[2] >>
    ELSE IF checks THEN Panic
    ELSE << (a[1] + b[1]) % 65536, (a[2] + b[2]) % 65536 >>

\* Sub for Cell::sub
Cell_sub(a, b, checks) ==
    LET dr == as_i16(a[1]) - as_i16(b[1])
        dc == as_i16(a[2]) - as_i16(b[2])
    IN  IF fits_i16(dr) /\ fits_i16(dc)
        THEN << max(dr, 0), max(dc, 0) >>
        ELSE IF checks THEN Panic
        ELSE << max(wrap_i16(dr), 0), max(wrap_i16(dc), 0) >>

\* Rect::contains on Rect(start, sz), with the && evaluated left to right: the
\* boolean it returns, or a panic when a sum it reaches overflows in a build
\* with overflow checks
Rect_contains(start, sz, cell, checks) ==
    LET end_row == start[1] + sz[1]
        end_col == start[2] + sz[2]
        no(v)   == [ panicked |-> FALSE, value |-> v ]
        boom    == [ panicked |-> TRUE, value |-> FALSE ]
    IN  IF ~(cell[1] >= start[1]) THEN no(FALSE)
        ELSE IF ~fits_u16(end_row) /\ checks THEN boom
        ELSE IF ~(cell[1] < end_row % 65536) THEN no(FALSE)
        ELSE IF ~(cell[2] >= start[2]) THEN no(FALSE)
        ELSE IF ~fits_u16(end_col) /\ checks THEN boom
        ELSE no(cell[2] < end_col % 65536)

\* CellIterator::new on Rect(start, sz): the struct; its size is Panic when
\* start + size overflowed in a build with overflow checks
CellIterator_new(start, sz, checks) ==
    LET abs_size == Cell_add(start, sz, checks)
    IN  [ next_cell |-> IF abs_size = Panic THEN None ELSE within(start, abs_size),
          size      |-> abs_size,
          width     |-> sz[2] ]

\* the closure of CellIterator::next: the successor of cell (a Cell, None or
\* Panic)
advance(it, cell, checks) ==
    LET right == Cell_add(cell, <<0, 1>>, checks)
    IN  IF right = Panic THEN Panic
        ELSE IF within(right, it.size) # None THEN right
        ELSE IF it.width = 0 /\ checks THEN Panic        \* self.width - 1
        ELSE LET w1   == (it.width + 65535) % 65536
                 back == Cell_sub(cell, <<0, w1>>, checks)
             IN  IF back = Panic THEN Panic
                 ELSE LET down == Cell_add(back, <<1, 0>>, checks)
                      IN  IF down = Panic THEN Panic ELSE within(down, it.size)

\* ---------------------------------------------------------------- emitter
\* The control sequences of Terminal, one value per write!.
SeqClear      == <<"ESC[2J">>
SeqEnterAlt   == <<"ESC7 ESC[?47h">>
SeqLeaveAlt   == <<"ESC[?47l ESC8">>
SeqHideCursor == <<"ESC[?25l">>
SeqShowCursor == <<"ESC[?25h">>
SeqCursor_zero_indexed(row, col) == <<"ESC[;H", row, col>>

\* Terminal::set_cursor_position: row + 1 and col + 1 are u16 sums
SeqCursor(row, col) == <<"ESC[;H", (row + 1) % 65536, (col + 1) % 65536>>

\* whether those sums panic: they overflow and the build checks overflow
cursor_panics(row, col, checks) ==
    checks /\ ~(fits_u16(row + 1) /\ fits_u16(col + 1))
SeqFg(fg)     == <<"fg", to_term_color(fg)>>
SeqBg(bg)     == <<"bg", to_term_color(bg)>>
SeqChar(ch)   == <<"char", ch>>

\* the writes of Screen::setup, in program order
setup_writes_swapped == << SeqHideCursor, SeqEnterAlt, SeqClear >>

setup_writes == << SeqEnterAlt, SeqHideCursor, SeqClear >>

\* the writes of Drop for Screen, in program order
drop_writes == << SeqClear, SeqShowCursor, SeqLeaveAlt >>

\* the writes of Screen::put once the buffer reported a change
put_writes_swapped(row, col, ch, fg, bg) ==
    << SeqCursor(row, col), SeqBg(bg), SeqFg(fg), SeqChar(ch) >>

put_writes(row, col, ch, fg, bg) ==
    << SeqCursor(row, col), SeqFg(fg), SeqBg(bg), SeqChar(ch) >>

\* f = 0: every write of ws succeeds; f = k > 0: write k fails (its unwrap
\* panics), so exactly the first k-1 sequences reached the terminal.
Emitted(ws, f) == IF f = 0 THEN ws ELSE SubSeq(ws, 1, f - 1)

\* ---------------------------------------------------------------- ScreenBuffer
\* cells is a sequence (index i of the Vec is cells[i+1]).

resize_keeps_width(cells, width, sz) ==
    LET current_size == Len(cells)
        new_size     == sz[1] * sz[2]
    IN  [ cells |-> [i \in 1..new_size |-> IF i <= current_size THEN cells[i] ELSE None],
          width |-> width ]

resize_fresh(cells, width, sz) ==
    [ cells |-> [i \in 1..(sz[1] * sz[2]) |-> None], width |-> sz[2] ]

\* ScreenBuffer::resize
resize(cells, width, sz) ==
    LET current_size == Len(cells)
        new_size     == sz[1] * sz[2]
    IN  [ cells |-> IF new_size > current_size
                      THEN cells \o [i \in 1..(new_size - current_size) |-> None]
                    ELSE IF new_size < current_size
                      THEN SubSeq(cells, 1, new_size)
                    ELSE cells,
          width |-> sz[2] ]

ScreenBuffer_clear_skips_first(cells) ==
    [i \in 1..Len(cells) |-> IF i = 1 THEN cells[i] ELSE None]

\* ScreenBuffer::clear
ScreenBuffer_clear(cells) == [i \in 1..Len(cells) |-> None]

index_transposed(width, cell) == cell[2] * width + cell[1]

\* the Vec index ScreenBuffer::update computes
index(width, cell) == cell[1] * width + cell[2]

update_head_only(cells, width, position, character, fg, bg) ==
    LET cell        == <<character, fg, bg>>
        idx         == index(width, position)
        buffer_size == Len(cells)
        nones       == { i \in { idx + k : k \in 1..(unwrap_or(CharWidth(character), 1) - 1) } :
                           i < buffer_size }
        upd         == cells[idx + 1] # cell
    IN  [ changed |-> upd,
          cells   |-> IF upd
                        THEN [i \in 1..buffer_size |->
                                IF i = idx + 1 THEN cell
                                ELSE IF (i - 1) \in nones THEN None
                                ELSE cells[i]]
                        ELSE cells ]

update_keeps_footprint(cells, width, position, character, fg, bg) ==
    LET cell        == <<character, fg, bg>>
        idx         == index(width, position)
        buffer_size == Len(cells)
        nones       == { i \in { idx + k : k \in 1..(unwrap_or(CharWidth(character), 1) - 1) } :
                           i < buffer_size }
        upd         == cells[idx + 1] # cell \/ \E i \in nones : cells[i + 1] # None
    IN  [ changed |-> upd,
          cells   |-> IF upd
                        THEN [i \in 1..buffer_size |-> IF i = idx + 1 THEN cell ELSE cells[i]]
                        ELSE cells ]

update_always(cells, width, position, character, fg, bg) ==
    LET cell        == <<character, fg, bg>>
        idx         == index(width, position)
        buffer_size == Len(cells)
        nones       == { i \in { idx + k : k \in 1..(unwrap_or(CharWidth(character), 1) - 1) } :
                           i < buffer_size }
    IN  [ changed |-> TRUE,
          cells   |-> [i \in 1..buffer_size |->
                                IF i = idx + 1 THEN cell
                                ELSE IF (i - 1) \in nones THEN None
                                ELSE cells[i]] ]

\* ScreenBuffer::update, for an index inside the Vec
update(cells, width, position, character, fg, bg) ==
    LET cell        == <<character, fg, bg>>
        idx         == index(width, position)
        buffer_size == Len(cells)
        nones       == { i \in { idx + k : k \in 1..(unwrap_or(CharWidth(character), 1) - 1) } :
                           i < buffer_size }
        upd         == cells[idx + 1] # cell \/ \E i \in nones : cells[i + 1] # None
    IN  [ changed |-> upd,
          cells   |-> IF upd
                        THEN [i \in 1..buffer_size |->
                                IF i = idx + 1 THEN cell
                                ELSE IF (i - 1) \in nones THEN None
                                ELSE cells[i]]
                        ELSE cells ]

\* ---------------------------------------------------------------- state
VARIABLES
    phase,      \* "Uninitialized", "SetupError", "Active", "Unwinding",
                \* "TornDown", "Panicked", "Aborted"
    size,       \* Screen.size
    cells,      \* Screen.buffer.cells
    width,      \* Screen.buffer.width
    out,        \* the sequences the most recent call emitted, in order
    head,       \* the first three sequences emitted since the program started
    drawn,      \* per cell, the glyph last written there since the last
                \* terminal clear (None: nothing)
    last,       \* the most recent call: its name, arguments and result
    since_clear, \* "cleared" from a completed Screen::clear until the next put,
                \* "first_put" after that put, "no" otherwise
    ops,        \* number of facade calls made since setup
    rect,       \* the Rect a CellIterator is made for: << start, size >>
    overflow_checks,  \* whether the build panics on arithmetic overflow
    iter_state, \* "unbuilt", "built", or "panicked" (new or next panicked)
    iter,       \* the CellIterator struct: next_cell, size, width
    yielded,    \* the Cells next() returned so far, in order
    exhausted,  \* how many times next() returned None
    operands,   \* the values a geometry operation is applied to: a, b, p
    result,     \* the geometry operation last applied, and what it returned
    prev,       \* the ScreenBuffer call made before the most recent one
    before      \* ScreenBuffer.cells as the most recent call found them

screen_vars == << phase, size, cells, width, out, head, drawn, last, since_clear, ops >>
iter_vars   == << rect, overflow_checks, iter_state, iter, yielded, exhausted >>
geom_vars   == << operands, result >>
hist_vars   == << prev, before >>
vars == << phase, size, cells, width, out, head, drawn, last, since_clear, ops,
           rect, overflow_checks, iter_state, iter, yielded, exhausted,
           operands, result, prev, before >>

Positions == (0..MaxRows) \X (0..MaxCols)          \* arguments of put
Grid      == (0..(MaxRows - 1)) \X (0..(MaxCols - 1))
Blank     == [p \in Grid |-> None]

\* op: the method; pos, glyph: the arguments of put / set_cursor_position;
\* changed: what ScreenBuffer::update (for put) or update_size returned;
\* provided: what term_size::size() returned; claimed: whether term::stdout()
\* returned a terminal; attempts: how many writes the call issued; fail: which
\* of them failed (0: none)
Call(op) == [ op |-> op, pos |-> <<0, 0>>, glyph |-> None, changed |-> FALSE,
              provided |-> None, claimed |-> TRUE, attempts |-> 0, fail |-> 0 ]

\* the first three sequences of the whole output
Prefix3(h, ws) == IF Len(h) >= 3 THEN h ELSE SubSeq(h \o ws, 1, IF Len(h \o ws) < 3 THEN Len(h \o ws) ELSE 3)

\* number of writes attempted out of n when the f-th fails (0: none fails)
Attempts(n, f) == IF f = 0 THEN n ELSE f

ScreenInit ==
    /\ phase = "Uninitialized"
    /\ size = <<0, 0>>
    /\ cells = <<>>
    /\ width = 0
    /\ out = <<>>
    /\ head = <<>>
    /\ drawn = Blank
    /\ last = Call("none")
    /\ since_clear = "no"
    /\ ops = 0

NoStruct == [ next_cell |-> None, size |-> <<0, 0>>, width |-> 0 ]

NoIterator ==
    /\ rect = << <<0, 0>>, <<0, 0>> >>
    /\ overflow_checks = FALSE
    /\ iter_state = "unbuilt"
    /\ iter = NoStruct
    /\ yielded = <<>>
    /\ exhausted = 0

NoOperands == [ a |-> <<0, 0>>, b |-> <<0, 0>>, p |-> <<0, 0>> ]
NoResult   == [ op |-> "none", panicked |-> FALSE, value |-> None ]

NoGeometry ==
    /\ operands = NoOperands
    /\ result = NoResult

NoHistory ==
    /\ prev = Call("none")
    /\ before = <<>>

Init == ScreenInit /\ NoIterator /\ NoGeometry /\ NoHistory

\* Screen::setup.  claimed: whether term::stdout() yields a terminal.
setup ==
    /\ phase = "Uninitialized"
    /\ \E claimed \in BOOLEAN, f \in 0..3 :
        IF ~claimed
        THEN /\ f = 0
             /\ phase' = "SetupError"
             /\ last' = [Call("setup") EXCEPT !.claimed = FALSE]
             /\ UNCHANGED << size, cells, width, out, head, drawn, since_clear, ops >>
        ELSE /\ out' = Emitted(setup_writes, f)
             /\ head' = Prefix3(head, out')
             /\ last' = [Call("setup") EXCEPT !.attempts = Attempts(3, f), !.fail = f]
             /\ drawn' = Blank
             /\ phase' = IF f = 0 THEN "Active" ELSE "Panicked"
             /\ size' = <<0, 0>>
             /\ cells' = <<>>
             /\ width' = 0
             /\ UNCHANGED << since_clear, ops >>
    /\ UNCHANGED iter_vars
    /\ UNCHANGED geom_vars
    /\ UNCHANGED hist_vars

\* Screen::update_size as a function of the size provider's answer
update_size_no_compare(provided, sz, cs, w) ==
    IF provided = None
    THEN [ size |-> sz, cells |-> cs, width |-> w, ret |-> FALSE ]
    ELSE LET r == resize(cs, w, provided)
         IN  [ size |-> provided, cells |-> r.cells, width |-> r.width, ret |-> TRUE ]

update_size_result(provided, sz, cs, w) ==
    IF provided = None \/ provided = sz
    THEN [ size |-> sz, cells |-> cs, width |-> w, ret |-> FALSE ]
    ELSE LET r == resize(cs, w, provided)
         IN  [ size |-> provided, cells |-> r.cells, width |-> r.width, ret |-> TRUE ]

\* Screen::update_size.  provided: term_size::size(), None when the ioctl fails.
update_size_from(answers) ==
    /\ phase = "Active"
    /\ ops < MaxOps
    /\ \E provided \in answers :
        LET r == update_size_result(provided, size, cells, width)
        IN  /\ size' = r.size
            /\ cells' = r.cells
            /\ width' = r.width
            /\ last' = [Call("update_size") EXCEPT !.provided = provided, !.changed = r.ret]
    /\ out' = <<>>
    /\ ops' = ops + 1
    /\ UNCHANGED << phase, head, drawn, since_clear >>
    /\ UNCHANGED iter_vars
    /\ UNCHANGED geom_vars
    /\ UNCHANGED hist_vars

\* what term_size::size() answers: None, or a Size
ProvidedSizes == {None} \cup ((0..MaxRows) \X (0..MaxCols))

update_size == update_size_from(ProvidedSizes)

\* Screen::clear
clear ==
    /\ phase = "Active"
    /\ ops < MaxOps
    /\ \E f \in 0..1 :
        /\ out' = Emitted(<< SeqClear >>, f)
        /\ last' = [Call("clear") EXCEPT !.attempts = 1, !.fail = f]
        /\ IF f = 0
           THEN /\ cells' = ScreenBuffer_clear(cells)
                /\ drawn' = Blank
                /\ since_clear' = "cleared"
                /\ phase' = "Active"
           ELSE /\ phase' = "Unwinding"
                /\ UNCHANGED << cells, drawn, since_clear >>
    /\ head' = Prefix3(head, out')
    /\ ops' = ops + 1
    /\ UNCHANGED << size, width >>
    /\ UNCHANGED iter_vars
    /\ UNCHANGED geom_vars
    /\ UNCHANGED hist_vars

\* Screen::put
put ==
    /\ phase = "Active"
    /\ ops < MaxOps
    /\ \E position \in Positions, g \in Glyphs, f \in 0..4 :
        LET call == [Call("put") EXCEPT !.pos = position, !.glyph = g]
        IN
        IF within(position, size) = None
        THEN /\ f = 0
             /\ last' = call
             /\ out' = <<>>
             /\ UNCHANGED << phase, cells, drawn >>
        ELSE IF index(width, position) >= Len(cells)
        THEN \* self.cells[idx] panics: index out of bounds
             /\ f = 0
             /\ last' = call
             /\ out' = <<>>
             /\ phase' = "Unwinding"
             /\ UNCHANGED << cells, drawn >>
        ELSE LET u == update(cells, width, position, g[1], g[2], g[3])
             IN  /\ cells' = u.cells
                 /\ IF u.changed
                    THEN IF cursor_panics(position[1], position[2], overflow_checks)
                         THEN /\ f = 0
                              /\ out' = <<>>
                              /\ last' = [call EXCEPT !.changed = TRUE]
                              /\ phase' = "Unwinding"
                              /\ UNCHANGED drawn
                         ELSE
                         /\ out' = Emitted(put_writes(position[1], position[2], g[1], g[2], g[3]), f)
                         /\ last' = [call EXCEPT !.changed = TRUE, !.attempts = Attempts(4, f), !.fail = f]
                         /\ phase' = IF f = 0 THEN "Active" ELSE "Unwinding"
                         /\ drawn' = IF f = 0 THEN [drawn EXCEPT ![position] = g] ELSE drawn
                    ELSE /\ f = 0
                         /\ out' = <<>>
                         /\ last' = call
                         /\ UNCHANGED << phase, drawn >>
    /\ head' = Prefix3(head, out')
    /\ since_clear' = IF since_clear = "cleared" THEN "first_put" ELSE "no"
    /\ ops' = ops + 1
    /\ UNCHANGED << size, width >>
    /\ UNCHANGED iter_vars
    /\ UNCHANGED geom_vars
    /\ UNCHANGED hist_vars

\* Screen::set_cursor_position
set_cursor_position_at(positions) ==
    /\ phase = "Active"
    /\ ops < MaxOps
    /\ \E position \in positions, f \in 0..1 :
        LET call == [Call("set_cursor_position") EXCEPT !.pos = position]
        IN
        IF within(position, size) = None
        THEN /\ f = 0
             /\ last' = call
             /\ out' = <<>>
             /\ UNCHANGED phase
        ELSE IF cursor_panics(position[1], position[2], overflow_checks)
        THEN /\ f = 0
             /\ last' = call
             /\ out' = <<>>
             /\ phase' = "Unwinding"
        ELSE /\ out' = Emitted(<< SeqCursor(position[1], position[2]) >>, f)
             /\ last' = [call EXCEPT !.attempts = 1, !.fail = f]
             /\ phase' = IF f = 0 THEN "Active" ELSE "Unwinding"
    /\ head' = Prefix3(head, out')
    /\ ops' = ops + 1
    /\ UNCHANGED << size, cells, width, drawn, since_clear >>
    /\ UNCHANGED iter_vars
    /\ UNCHANGED geom_vars
    /\ UNCHANGED hist_vars

set_cursor_position == set_cursor_position_at(Positions)

\* Screen::flush: pushes out what was written, emits no sequence of its own
flush ==
    /\ phase = "Active"
    /\ ops < MaxOps
    /\ \E f \in 0..1 :
        /\ phase' = IF f = 0 THEN "Active" ELSE "Unwinding"
        /\ last' = [Call("flush") EXCEPT !.attempts = 1, !.fail = f]
    /\ out' = <<>>
    /\ ops' = ops + 1
    /\ UNCHANGED << size, cells, width, head, drawn, since_clear >>
    /\ UNCHANGED iter_vars
    /\ UNCHANGED geom_vars
    /\ UNCHANGED hist_vars

\* Drop for Screen: runs when the facade goes out of scope (phase Active:
\* normal or error return) or during the unwind of a panic (phase Unwinding).
\* A failing write panics out of drop; if a panic is already unwinding, the
\* second panic aborts the process.
drop ==
    /\ phase \in {"Active", "Unwinding"}
    /\ \E f \in 0..3 :
        /\ out' = Emitted(drop_writes, f)
        /\ last' = [Call("drop") EXCEPT !.attempts = Attempts(3, f), !.fail = f]
        /\ phase' = IF f = 0 THEN "TornDown"
                    ELSE IF phase = "Unwinding" THEN "Aborted" ELSE "Panicked"
        /\ drawn' = IF f # 1 THEN Blank ELSE drawn
    /\ head' = Prefix3(head, out')
    /\ UNCHANGED << size, cells, width, since_clear, ops >>
    /\ UNCHANGED iter_vars
    /\ UNCHANGED geom_vars
    /\ UNCHANGED hist_vars

Next ==
    \/ setup
    \/ update_size
    \/ clear
    \/ put
    \/ set_cursor_position
    \/ flush
    \/ drop

Spec == Init /\ [][Next]_vars

\* ---------------------------------------------------------------- CellIterator
MaxRegion == 2       \* largest row / column count of an iterated Rect
MaxYield  == 6       \* calls of next() that return a Cell
MaxExhausted == 2    \* calls of next() that return None

Origins == {0, 1, 32767, 65535}

IterInit ==
    /\ ScreenInit
    /\ NoGeometry
    /\ NoHistory
    /\ rect \in ((Origins \X Origins) \X ((0..MaxRegion) \X (0..MaxRegion)))
    /\ overflow_checks \in BOOLEAN
    /\ iter_state = "unbuilt"
    /\ iter = NoStruct
    /\ yielded = <<>>
    /\ exhausted = 0

\* CellIterator::new(rect)
new ==
    /\ iter_state = "unbuilt"
    /\ iter' = CellIterator_new(rect[1], rect[2], overflow_checks)
    /\ iter_state' = IF iter'.size = Panic THEN "panicked" ELSE "built"
    /\ UNCHANGED << rect, overflow_checks, yielded, exhausted >>
    /\ UNCHANGED screen_vars
    /\ UNCHANGED geom_vars
    /\ UNCHANGED hist_vars

\* Iterator for CellIterator::next
next ==
    /\ iter_state = "built"
    /\ IF iter.next_cell = None
       THEN /\ exhausted < MaxExhausted
            /\ exhausted' = exhausted + 1
            /\ UNCHANGED << iter_state, iter, yielded >>
       ELSE /\ Len(yielded) < MaxYield
            /\ LET succ == advance(iter, iter.next_cell, overflow_checks)
               IN  IF succ = Panic
                   THEN /\ iter_state' = "panicked"
                        /\ UNCHANGED << iter, yielded >>
                   ELSE /\ iter' = [iter EXCEPT !.next_cell = succ]
                        /\ yielded' = Append(yielded, iter.next_cell)
                        /\ UNCHANGED iter_state
            /\ UNCHANGED exhausted
    /\ UNCHANGED << rect, overflow_checks >>
    /\ UNCHANGED screen_vars
    /\ UNCHANGED geom_vars
    /\ UNCHANGED hist_vars

IterNext ==
    \/ new
    \/ next

SpecIter == IterInit /\ [][IterNext]_vars

\* ---------------------------------------------------------------- Cell, Rect
\* u16 values around the places where the arithmetic changes behaviour
U16Samples == {0, 1, 32767, 32768, 65535}

GeomInit ==
    /\ ScreenInit
    /\ NoHistory
    /\ rect = << <<0, 0>>, <<0, 0>> >>
    /\ overflow_checks \in BOOLEAN
    /\ iter_state = "unbuilt"
    /\ iter = NoStruct
    /\ yielded = <<>>
    /\ exhausted = 0
    /\ operands \in [ a : U16Samples \X U16Samples,
                      b : U16Samples \X U16Samples,
                      p : U16Samples \X U16Samples ]
    /\ result = NoResult

\* operands.a - operands.b
sub ==
    /\ result.op = "none"
    /\ LET d == Cell_sub(operands.a, operands.b, overflow_checks)
       IN  result' = [ op |-> "sub", panicked |-> (d = Panic), value |-> d ]
    /\ UNCHANGED operands
    /\ UNCHANGED screen_vars
    /\ UNCHANGED iter_vars
    /\ UNCHANGED hist_vars

\* Rect(operands.a, operands.b).contains(operands.p)
contains ==
    /\ result.op = "none"
    /\ LET r == Rect_contains(operands.a, operands.b, operands.p, overflow_checks)
       IN  result' = [ op |-> "contains", panicked |-> r.panicked, value |-> r.value ]
    /\ UNCHANGED operands
    /\ UNCHANGED screen_vars
    /\ UNCHANGED iter_vars
    /\ UNCHANGED hist_vars

GeomNext ==
    \/ sub
    \/ contains

SpecGeom == GeomInit /\ [][GeomNext]_vars

\* ---------------------------------------------------------------- ScreenBuffer alone
\* The diff cache as Screen drives it: made by ScreenBuffer::new, resized to the
\* sizes update_size stores, cleared, and updated at positions within the
\* stored size.
MaxBufOps == 5       \* ScreenBuffer calls made after new()

\* "ctl" is a control character (no width), "z" a zero-width character
BufGlyphs == { <<"a", "Red", "Black">>, <<"a", "Black", "Black">>,
               <<"W", "Black", "Red">>, <<"ctl", "Red", "Black">>,
               <<"z", "Black", "Black">> }

\* ScreenBuffer::new
BufInit ==
    /\ ScreenInit
    /\ NoIterator
    /\ NoGeometry
    /\ NoHistory

\* ScreenBuffer::resize, called by update_size with a Size other than the
\* stored one
buf_resize ==
    /\ ops < MaxBufOps
    /\ \E sz \in (0..MaxRows) \X (0..MaxCols) :
        /\ sz # size
        /\ LET r == resize(cells, width, sz)
           IN  /\ cells' = r.cells
               /\ width' = r.width
        /\ size' = sz
        /\ last' = [Call("resize") EXCEPT !.provided = sz]
    /\ prev' = last
    /\ before' = cells
    /\ ops' = ops + 1
    /\ UNCHANGED << phase, out, head, drawn, since_clear >>
    /\ UNCHANGED iter_vars
    /\ UNCHANGED geom_vars

\* ScreenBuffer::clear
buf_clear ==
    /\ ops < MaxBufOps
    /\ cells' = ScreenBuffer_clear(cells)
    /\ last' = Call("clear")
    /\ prev' = last
    /\ before' = cells
    /\ ops' = ops + 1
    /\ UNCHANGED << phase, size, width, out, head, drawn, since_clear >>
    /\ UNCHANGED iter_vars
    /\ UNCHANGED geom_vars

\* ScreenBuffer::update, called by put with a position within the stored size
buf_update ==
    /\ ops < MaxBufOps
    /\ \E position \in Positions, g \in BufGlyphs :
        /\ within(position, size) # None
        /\ index(width, position) < Len(cells)
        /\ LET u == update(cells, width, position, g[1], g[2], g[3])
           IN  /\ cells' = u.cells
               /\ last' = [Call("update") EXCEPT !.pos = position, !.glyph = g,
                                                 !.changed = u.changed]
    /\ prev' = last
    /\ before' = cells
    /\ ops' = ops + 1
    /\ UNCHANGED << phase, size, width, out, head, drawn, since_clear >>
    /\ UNCHANGED iter_vars
    /\ UNCHANGED geom_vars

BufNext ==
    \/ buf_resize
    \/ buf_clear
    \/ buf_update

SpecBuf == BufInit /\ [][BufNext]_vars

\* ---------------------------------------------------------------- Screen at the u16 limit
\* The facade on a terminal whose row or column count is the largest a u16
\* holds, with cursor positions at and next to that limit.
TallSizes     == { None, <<65535, 1>>, <<1, 65535>> }
TallPositions == {0, 65534, 65535} \X {0, 65534, 65535}

TallInit ==
    /\ ScreenInit
    /\ rect = << <<0, 0>>, <<0, 0>> >>
    /\ overflow_checks \in BOOLEAN
    /\ iter_state = "unbuilt"
    /\ iter = NoStruct
    /\ yielded = <<>>
    /\ exhausted = 0
    /\ NoGeometry
    /\ NoHistory

update_size_tall == update_size_from(TallSizes)

set_cursor_position_tall == set_cursor_position_at(TallPositions)

TallNext ==
    \/ setup
    \/ update_size_tall
    \/ set_cursor_position_tall

SpecTall == TallInit /\ [][TallNext]_vars

\* ================================================================ properties
\* position p lies strictly inside the dimensions sz
InBounds(p, sz) == p[1] < sz[1] /\ p[2] < sz[2]

\* a step that is a call of method op
Called(op) == last'.op = op /\ ops' = ops + 1

\* a call of method op that returned normally (no write failed)
Returned(op) == Called(op) /\ phase = "Active" /\ phase' = "Active"

\* [cursor-move to p, select fg, select bg, write ch]
GlyphSequence(p, g) ==
    << <<"ESC[;H", p[1] + 1, p[2] + 1>>, SeqFg(g[2]), SeqBg(g[3]), SeqChar(g[1]) >>

AllEmpty(cs) == \A i \in 1..Len(cs) : cs[i] = None

\* C1: a put at an in-bounds position that returns emits exactly [cursor-move
\* to p, select fg, select bg, write ch] when the diff cache reports a change
\* and nothing otherwise; a put into a cache that is still entirely empty (as
\* after setup and the first update_size) emits the sequence, and an
\* immediately repeated identical put emits nothing.
C1_PutEmitsOnChange ==
    [][ (Returned("put") /\ InBounds(last'.pos, size)) =>
          /\ out' = IF last'.changed THEN GlyphSequence(last'.pos, last'.glyph) ELSE <<>>
          /\ (AllEmpty(cells) => out' = GlyphSequence(last'.pos, last'.glyph))
          /\ (last.op = "put" /\ last.pos = last'.pos /\ last.glyph = last'.glyph)
                => out' = <<>>
      ]_vars

\* an identical in-bounds put has just been repeated and was suppressed
C1_Witness ==
    /\ phase = "Active"
    /\ last.op = "put"
    /\ InBounds(last.pos, size)
    /\ ~last.changed
    /\ out = <<>>
    /\ drawn[last.pos] = last.glyph

\* C2: in an Active facade, every in-bounds cell whose cache entry is a glyph
\* has that glyph as the most recent one written at the cell since the last
\* terminal clear.
C2_CacheMatchesTerminal ==
    phase = "Active" =>
        \A p \in Grid :
            (InBounds(p, size) /\ index(width, p) < Len(cells)
                /\ cells[index(width, p) + 1] # None)
            => drawn[p] = cells[index(width, p) + 1]

\* the three teardown sequences without the one whose own write failed
TeardownExpected(f) ==
    LET all == << SeqClear, SeqShowCursor, SeqLeaveAlt >>
    IN  [i \in 1..(IF f = 0 THEN 3 ELSE 2) |-> IF f = 0 \/ i < f THEN all[i] ELSE all[i + 1]]

\* C3: whenever the facade is dropped (from Active, or while a panic of an
\* earlier call unwinds), teardown emits clear-screen, show-cursor,
\* leave-alternate-screen, once each and in that order (a sequence whose own
\* write fails aside).
C3_TeardownEmitsAll ==
    last.op = "drop" => out = TeardownExpected(last.fail)

\* C4: teardown never ends in a panic or an abort and always issues all three
\* of its writes, whichever of them fails.
C4_TeardownTolerant ==
    last.op = "drop" => (phase = "TornDown" /\ last.attempts = 3)

\* C5: a put at a position with row >= rows or col >= cols raises no error,
\* changes no diff-cache entry, keeps the cached Dimensions and emits nothing.
C5_PutOutOfBoundsNoop ==
    [][ (Called("put") /\ ~InBounds(last'.pos, size)) =>
          /\ phase' = phase
          /\ cells' = cells
          /\ width' = width
          /\ size' = size
          /\ out' = <<>>
          /\ head' = head
          /\ drawn' = drawn
      ]_vars

\* an out-of-bounds put was made on a facade whose cache holds a glyph
C5_Witness ==
    /\ phase = "Active"
    /\ last.op = "put"
    /\ ~InBounds(last.pos, size)
    /\ \E i \in 1..Len(cells) : cells[i] # None

\* C6: update_size returns "unchanged" and keeps Dimensions and cache when the
\* provider yields nothing or the cached size; on a different size it resizes
\* the cache to it, stores it and returns "changed"; it never emits.
C6_UpdateSize ==
    [][ Called("update_size") =>
          LET p == last'.provided
          IN  /\ out' = <<>>
              /\ head' = head
              /\ phase' = phase
              /\ IF p = None \/ p = size
                 THEN /\ ~last'.changed
                      /\ size' = size
                      /\ cells' = cells
                      /\ width' = width
                 ELSE /\ last'.changed
                      /\ size' = p
                      /\ Len(cells') = p[1] * p[2]
                      /\ width' = p[2]
      ]_vars

\* the provider failed on a facade that has a size and a drawn glyph
C6_Witness ==
    /\ last.op = "update_size"
    /\ last.provided = None
    /\ ~last.changed
    /\ size # <<0, 0>>
    /\ \E i \in 1..Len(cells) : cells[i] # None

\* C7: in every Active state the cache has rows*columns entries and its width
\* is columns.
C7_CacheMatchesDimensions ==
    phase = "Active" => (Len(cells) = size[1] * size[2] /\ width = size[2])

\* the facade was resized to a smaller, non-empty size with another width
C7_Witness ==
    /\ phase = "Active"
    /\ last.op = "update_size"
    /\ last.changed
    /\ size = <<1, 1>>
    /\ cells[1] # None

\* C8: a clear that returns emits the clear-screen sequence and empties every
\* cache entry, keeping Dimensions, width and cache length; the first put after
\* it, if in bounds, is reported as changed and emits its writes.
C8_Clear ==
    [][ /\ Returned("clear") =>
            /\ out' = << SeqClear >>
            /\ Len(cells') = Len(cells)
            /\ AllEmpty(cells')
            /\ size' = size
            /\ width' = width
        /\ (Returned("put") /\ since_clear = "cleared" /\ InBounds(last'.pos, size)) =>
            /\ last'.changed
            /\ out' = GlyphSequence(last'.pos, last'.glyph)
      ]_vars

\* the first put after a clear has been made and was drawn
C8_Witness ==
    /\ phase = "Active"
    /\ since_clear = "first_put"
    /\ last.op = "put"
    /\ InBounds(last.pos, size)
    /\ out = GlyphSequence(last.pos, last.glyph)

\* C9: a setup whose stream is claimed (and whose writes succeed) emits
\* enter-alternate-screen, hide-cursor, clear-screen as the first sequences of
\* the program and yields an Active facade with Dimensions (0,0) and an empty
\* cache; a setup whose stream is not claimed ends in SetupError, nothing is
\* ever emitted and no further call or teardown follows.
C9_Setup ==
    [][ /\ (last'.op = "setup" /\ phase = "Uninitialized" /\ phase' # phase) =>
            IF last'.claimed
            THEN /\ \A i \in 1..Len(out') :
                        out'[i] = << SeqEnterAlt, SeqHideCursor, SeqClear >>[i]
                 /\ head' = out'
                 /\ last'.fail = 0 =>
                        /\ phase' = "Active"
                        /\ out' = << SeqEnterAlt, SeqHideCursor, SeqClear >>
                        /\ size' = <<0, 0>>
                        /\ cells' = <<>>
                        /\ width' = 0
            ELSE /\ phase' = "SetupError"
                 /\ out' = <<>>
                 /\ head' = <<>>
        /\ phase' = "Active" => head' = << SeqEnterAlt, SeqHideCursor, SeqClear >>
        /\ phase # "Uninitialized" => last'.op # "setup"
        /\ phase = "SetupError" => FALSE
      ]_vars

\* setup has just produced an Active facade
C9_Witness ==
    /\ phase = "Active"
    /\ last.op = "setup"
    /\ out = << SeqEnterAlt, SeqHideCursor, SeqClear >>
    /\ size = <<0, 0>>
    /\ cells = <<>>

\* the Positions of Rect r in row-major order
RowMajor(r) ==
    [k \in 1..(r[2][1] * r[2][2]) |->
        << r[1][1] + ((k - 1) \div r[2][2]), r[1][2] + ((k - 1) % r[2][2]) >>]

IsPrefix(a, b) == Len(a) <= Len(b) /\ \A i \in 1..Len(a) : a[i] = b[i]

\* C10: for every Rect the iterator is built without failing, what it has
\* yielded so far is an initial part of the Rect's row-major enumeration, and
\* once it has returned None it has yielded the whole enumeration.
C10_IteratorEnumeratesRegion ==
    /\ iter_state # "panicked"
    /\ IsPrefix(yielded, RowMajor(rect))
    /\ exhausted > 0 => yielded = RowMajor(rect)

\* C11: for all u16 operands a - b returns, in each component, max(a_i - b_i, 0)
\* computed in the integers, without panicking.
C11_SubSaturates ==
    result.op = "sub" =>
        /\ ~result.panicked
        /\ result.value = << max(operands.a[1] - operands.b[1], 0),
                             max(operands.a[2] - operands.b[2], 0) >>

\* C12: for all u16 operands Rect(a, b).contains(p) returns, without panicking,
\* whether a.row <= p.row < a.row + b.rows and a.col <= p.col < a.col + b.cols
\* with the sums taken in the integers.
C12_ContainsExact ==
    result.op = "contains" =>
        /\ ~result.panicked
        /\ result.value =
              ( /\ operands.a[1] <= operands.p[1]
                /\ operands.p[1] < operands.a[1] + operands.b[1]
                /\ operands.a[2] <= operands.p[2]
                /\ operands.p[2] < operands.a[2] + operands.b[2] )

\* the columns a glyph takes: 2 for the wide character, otherwise 1
\* (characters without a measurable width count as 1)
GlyphColumns(g) == IF g[1] = "W" THEN 2 ELSE 1

\* row-major index of position p in a grid of cols columns
RowMajorIndex(p, cols) == p[1] * cols + p[2]

\* the indices after idx that a glyph of w columns reserves, inside a cache of
\* len entries
Footprint(idx, w, len) == { i \in (idx + 1)..(idx + w - 1) : i < len }

\* C13: update(position, ch, fg, bg) returns changed iff cache[idx] differs from
\* (ch, fg, bg) or a cell idx+1..idx+w-1 inside the cache is non-empty; when
\* changed it sets cache[idx], empties those following cells and touches no
\* other entry; when unchanged it touches nothing.
C13_UpdateChangedIff ==
    [][ Called("update") =>
          LET g    == last'.glyph
              idx  == RowMajorIndex(last'.pos, width)
              foot == Footprint(idx, GlyphColumns(g), Len(cells))
          IN  /\ last'.changed <=>
                    (cells[idx + 1] # g \/ \E i \in foot : cells[i + 1] # None)
              /\ last'.changed =>
                    cells' = [i \in 1..Len(cells) |->
                                IF i = idx + 1 THEN g
                                ELSE IF (i - 1) \in foot THEN None
                                ELSE cells[i]]
              /\ ~last'.changed => cells' = cells
      ]_vars

\* a wide glyph already in the cache was updated again and reported changed
\* only because the cell it covers had been filled
C13_Witness ==
    /\ last.op = "update"
    /\ last.changed
    /\ GlyphColumns(last.glyph) = 2
    /\ RowMajorIndex(last.pos, width) + 1 < Len(before)
    /\ before[RowMajorIndex(last.pos, width) + 1] = last.glyph
    /\ before[RowMajorIndex(last.pos, width) + 2] # None
    /\ cells[RowMajorIndex(last.pos, width) + 2] = None

\* C14: after a width-2 glyph is updated at index idx with idx+1 inside the
\* cache, entry idx+1 is empty and an update of any glyph there is reported
\* changed; re-updating the identical width-2 glyph after a glyph was put on
\* the covered cell is reported changed again and re-empties that cell.
C14_WideGlyphFootprint ==
    [][ Called("update") =>
          LET g   == last'.glyph
              idx == RowMajorIndex(last'.pos, width)
          IN  /\ (GlyphColumns(g) = 2 /\ idx + 1 < Len(cells)) =>
                    cells'[idx + 2] = None
              /\ (last.op = "update" /\ GlyphColumns(last.glyph) = 2
                    /\ idx = RowMajorIndex(last.pos, width) + 1) =>
                    last'.changed
              /\ (GlyphColumns(g) = 2 /\ idx + 1 < Len(cells)
                    /\ cells[idx + 1] = g /\ cells[idx + 2] # None) =>
                    (last'.changed /\ cells'[idx + 1] = g /\ cells'[idx + 2] = None)
      ]_vars

\* wide glyph at c, then a narrower glyph at c+1, then the same wide glyph at c
\* again: reported changed, c+1 emptied again
C14_Witness ==
    /\ last.op = "update"
    /\ prev.op = "update"
    /\ GlyphColumns(last.glyph) = 2
    /\ GlyphColumns(prev.glyph) = 1
    /\ prev.changed
    /\ prev.pos = << last.pos[1], last.pos[2] + 1 >>
    /\ before[RowMajorIndex(last.pos, width) + 1] = last.glyph
    /\ before[RowMajorIndex(prev.pos, width) + 1] = prev.glyph
    /\ last.changed
    /\ cells[RowMajorIndex(prev.pos, width) + 1] = None

Min(a, b) == IF a <= b THEN a ELSE b

\* C15: resize(rows, cols) leaves rows*cols entries and width cols; entries
\* below min(old length, new length) keep value and order, added entries are
\* empty, entries at or beyond the new length are gone.
C15_ResizeKeepsPrefix ==
    [][ Called("resize") =>
          LET sz == last'.provided
          IN  /\ Len(cells') = sz[1] * sz[2]
              /\ width' = sz[2]
              /\ \A i \in 1..Min(Len(cells), Len(cells')) : cells'[i] = cells[i]
              /\ \A i \in (Len(cells) + 1)..Len(cells') : cells'[i] = None
      ]_vars

\* a cache holding a glyph has been grown
C15_Witness ==
    /\ last.op = "resize"
    /\ Len(cells) > Len(before)
    /\ \E i \in 1..Len(before) : before[i] # None /\ cells[i] = before[i]
    /\ cells[Len(cells)] = None

\* C16: an update repeated immediately with identical arguments returns
\* unchanged and leaves the cache as the first call left it; an update of an
\* empty cell returns changed.
C16_UpdateIdempotent ==
    [][ Called("update") =>
          /\ (last.op = "update" /\ last.pos = last'.pos /\ last.glyph = last'.glyph) =>
                (~last'.changed /\ cells' = cells)
          /\ cells[RowMajorIndex(last'.pos, width) + 1] = None => last'.changed
      ]_vars

\* a wide glyph was updated over a filled cell and then updated again
C16_Witness ==
    /\ last.op = "update"
    /\ prev.op = "update"
    /\ prev.pos = last.pos
    /\ prev.glyph = last.glyph
    /\ GlyphColumns(last.glyph) = 2
    /\ prev.changed
    /\ ~last.changed
    /\ before = cells
    /\ RowMajorIndex(last.pos, width) + 1 < Len(cells)

\* C18: an update of a glyph at (r, c) changes only cache entries of cells in
\* row r.
C18_FootprintStaysInRow ==
    [][ Called("update") =>
          \A i \in 1..Len(cells) :
              cells'[i] # cells[i] => ((i - 1) \div width) = last'.pos[1]
      ]_vars

\* C17: set_cursor_position(p) whose write succeeds emits exactly one
\* cursor-move carrying (p.row + 1, p.col + 1), both within 16 bits, when p is
\* strictly inside the Dimensions, and emits nothing otherwise; either way the
\* cache and the Dimensions stay as they were.
C17_SetCursorPosition ==
    [][ Called("set_cursor_position") =>
          LET p == last'.pos
          IN  /\ cells' = cells
              /\ width' = width
              /\ size' = size
              /\ IF InBounds(p, size)
                 THEN /\ p[1] + 1 <= 65535
                      /\ p[2] + 1 <= 65535
                      /\ last'.fail = 0 =>
                            /\ phase' = "Active"
                            /\ out' = << <<"ESC[;H", p[1] + 1, p[2] + 1>> >>
                      /\ last'.fail # 0 => out' = <<>>
                 ELSE /\ out' = <<>>
                      /\ phase' = phase
      ]_vars

\* the cursor was moved to the last row a u16 can address
C17_Witness ==
    /\ phase = "Active"
    /\ last.op = "set_cursor_position"
    /\ last.pos = <<65534, 0>>
    /\ size = <<65535, 1>>
    /\ out = << <<"ESC[;H", 65535, 1>> >>

\* C19: in an Active facade every position within the Dimensions has a
\* row-major index row*width+col below the cache length, so no put fails on an
\* out-of-range index; while the Dimensions are still (0,0) every put is a
\* no-op.
C19_PutIndexInRange ==
    [][ /\ phase' = "Active" =>
            \A p \in Positions :
                InBounds(p, size') => p[1] * width' + p[2] < Len(cells')
        /\ (Called("put") /\ last'.fail = 0) => phase' = "Active"
        /\ (Called("put") /\ size = <<0, 0>>) =>
            /\ cells' = cells
            /\ drawn' = drawn
            /\ out' = <<>>
            /\ ~last'.changed
      ]_vars

\* a put reached the last entry of the cache after the facade had been resized
C19_Witness ==
    /\ phase = "Active"
    /\ last.op = "put"
    /\ last.changed
    /\ size = <<MaxRows, MaxCols>>
    /\ last.pos = <<MaxRows - 1, MaxCols - 1>>
    /\ last.pos[1] * width + last.pos[2] = Len(cells) - 1
====
